---- MODULE Spec2Model ----
(***************************************************************************)
(* Two documentation checkers of plexica:                                  *)
(*   .github/hooks/validate-doc-metadata.py   (DocMetadataValidator)       *)
(*   .github/scripts/validate-doc-links.py    (LinkValidator)              *)
(* Text (paths, status values, URLs, headings) is a sequence of            *)
(* one-character strings, so that the substring, prefix and split          *)
(* operations of the code are computed and not assumed.                    *)
(***************************************************************************)
EXTENDS Integers, Sequences, FiniteSets, TLC

(***************************************************************************)
(* Bounds of the model                                                     *)
(***************************************************************************)
\* longest list of staged files the version-control query returns
MaxStaged == 2
\* most links in the file docs/a.md
MaxLinks == 2
\* longest heading text the anchor derivation is applied to
MaxLen == 3

(***************************************************************************)
(* State of the two programs                                               *)
(***************************************************************************)
VARIABLES
    m_pc,        \* position in run(): "start", "validating", "returned", "raised"
    gitOutcome,  \* how the staged-files query ended
    staged,      \* staged_files
    doc_files,   \* doc_files
    idx,         \* 1-based position of the for loop in doc_files
    curPath,     \* the file validate_file was last called with
    curContent,  \* what read_text gave for it
    errors,      \* self.errors
    warnings,    \* self.warnings
    exception,   \* the exception that left run(), "" when none
    exitCode     \* the value run() returned, -1 before it returns

metaVars == <<m_pc, gitOutcome, staged, doc_files, idx, curPath, curContent,
              errors, warnings, exception, exitCode>>

VARIABLES
    l_pc,         \* position in main(): "extract", "validate", "report", "done"
    disk,         \* the files of the tree: path -> content
    scanned,      \* the files extract_links has been through
    anchors,      \* self.anchors: path -> [known, names]
    links,        \* self.links
    li,           \* 1-based position of validate_links in self.links
    linkErrors,   \* self.errors
    linkWarnings, \* self.warnings
    parseCount,   \* path -> times the file was read and its headings parsed
    errBefore,    \* len(self.errors) before the link last validated
    warnBefore,   \* len(self.warnings) before the link last validated
    linkExit      \* the value report() returned, -1 before it returns

linkVars == <<l_pc, disk, scanned, anchors, links, li, linkErrors, linkWarnings,
              parseCount, errBefore, warnBefore, linkExit>>

VARIABLES
    a_pc,         \* "input", "derived", "rederived"
    text,         \* heading.group(1)
    scanAnchor,   \* the anchor extract_links derives from text
    demandAnchor, \* the anchor validate_links derives from text
    rederived     \* the derivation applied to scanAnchor

anchorVars == <<a_pc, text, scanAnchor, demandAnchor, rederived>>

vars == <<metaVars, linkVars, anchorVars>>

(***************************************************************************)
(* Text helpers (python str / pathlib operations)                          *)
(***************************************************************************)
\* python: needle in hay
Contains(hay, needle) ==
    \E i \in 0..(Len(hay) - Len(needle)) :
        SubSeq(hay, i + 1, i + Len(needle)) = needle

\* python: s.startswith(prefix)
StartsWith(s, prefix) ==
    /\ Len(prefix) <= Len(s)
    /\ SubSeq(s, 1, Len(prefix)) = prefix

\* index of the first occurrence of character c in s, 0 when there is none
RECURSIVE IndexFrom(_, _, _)
IndexFrom(s, c, i) ==
    IF i > Len(s) THEN 0
    ELSE IF s[i] = c THEN i
    ELSE IndexFrom(s, c, i + 1)

IndexOf(s, c) == IndexFrom(s, c, 1)

\* index of the last occurrence of character c in s, 0 when there is none
RECURSIVE LastIndexFrom(_, _, _)
LastIndexFrom(s, c, i) ==
    IF i < 1 THEN 0
    ELSE IF s[i] = c THEN i
    ELSE LastIndexFrom(s, c, i - 1)

\* python: s.split(c), as a sequence of pieces
RECURSIVE Split(_, _)
Split(s, c) ==
    IF IndexOf(s, c) = 0 THEN <<s>>
    ELSE <<SubSeq(s, 1, IndexOf(s, c) - 1)>>
             \o Split(SubSeq(s, IndexOf(s, c) + 1, Len(s)), c)

\* pathlib: PurePath.parts of a path without a root (empty pieces dropped)
PathParts(path) == SelectSeq(Split(path, "/"), LAMBDA piece : piece # <<>>)

\* pathlib: PurePath.name
PathName(path) ==
    IF PathParts(path) = <<>> THEN <<>>
    ELSE PathParts(path)[Len(PathParts(path))]

\* pathlib: PurePath.suffix of a file name: the part from its last dot on, when
\* that dot is neither the first nor the last character of the name
NameSuffix(name) ==
    LET i == LastIndexFrom(name, ".", Len(name))
    IN  IF 1 < i /\ i < Len(name) THEN SubSeq(name, i, Len(name)) ELSE <<>>

PathSuffix(path) == NameSuffix(PathName(path))

\* the elements of a sequence
Range(s) == {s[i] : i \in DOMAIN s}

\* the sequences without repetition over S, of length at most n
DistinctSeqs(S, n) ==
    {q \in UNION {[1..k -> S] : k \in 0..n} :
        \A i, j \in DOMAIN q : i # j => q[i] # q[j]}

(***************************************************************************)
(* Metadata validator: configuration                                       *)
(***************************************************************************)
\* the labels of REQUIRED_FIELDS, in the order of the dictionary
REQUIRED_FIELDS == <<"Last Updated", "Status", "Owner", "Document Type">>

DOCS_DIRS ==
    { <<"s","p","e","c","s">>,
      <<"d","o","c","s">>,
      <<"p","l","a","n","n","i","n","g">>,
      <<".","g","i","t","h","u","b","/","d","o","c","s">> }

EXCLUDE_PATTERNS ==
    { <<"R","E","A","D","M","E",".","m","d">>,
      <<"_","_","p","y","c","a","c","h","e","_","_">>,
      <<".","g","i","t">>,
      <<"n","o","d","e","_","m","o","d","u","l","e","s">> }

MD_SUFFIX == <<".","m","d">>

valid_statuses ==
    << <<"C","o","m","p","l","e","t","e">>,
       <<"I","n"," ","P","r","o","g","r","e","s","s">>,
       <<"P","l","a","n","n","e","d">>,
       <<"D","e","p","r","e","c","a","t","e","d">>,
       <<"A","r","c","h","i","v","e","d">>,
       <<"N","e","e","d","s"," ","U","p","d","a","t","e">> >>

\* the text the Status pattern matches before the value: **Status**:
STATUS_LABEL == <<"*","*","S","t","a","t","u","s","*","*",":"," ">>

\* days_old > 180
STALE_DAYS == 180

\* Path.cwd(): the directory the hook runs in
CWD == <<"/","r","e","p","o">>

(***************************************************************************)
(* Metadata validator: inputs                                              *)
(***************************************************************************)
\* paths `git diff --cached --name-only` can print: relative to the
\* repository root
StagedPaths ==
    { <<"d","o","c","s","/","a",".","m","d">>,                                  \* docs/a.md
      <<"s","p","e","c","s","/","b",".","m","d">>,                              \* specs/b.md
      <<".","g","i","t","h","u","b","/","d","o","c","s","/","a",".","m","d">>,  \* .github/docs/a.md
      <<"d","o","c","s","/","R","E","A","D","M","E",".","m","d">>,              \* docs/README.md
      <<"s","r","c","/","a",".","m","d">>,                                      \* src/a.md
      <<"d","o","c","s","/","a",".","t","x","t">> }                             \* docs/a.txt

\* the value written after **Status**: in a file
StatusValues ==
    { <<"C","o","m","p","l","e","t","e">>,                          \* Complete
      <<"D","r","a","f","t">>,                                      \* Draft
      <<"c","o","m","p","l","e","t","e">>,                          \* complete
      <<"A","r","c","h","i","v","e","d"," ","(","o","l","d",")">> } \* Archived (old)

\* whole days between the date after **Last Updated**: and now
AgeSamples == {-1, 0, STALE_DAYS - 1, STALE_DAYS, STALE_DAYS + 1, 2 * STALE_DAYS}

\* What the four patterns can find in a file.  lastUpdated is "absent" (no
\* **Last Updated**: followed by dddd-dd-dd), "invalid" (the digits are no
\* calendar date, such as 2024-13-45) or "date" with its age in days;
\* status is <<>> when **Status**: with a value is absent.
Contents ==
    [readable : {TRUE}, lastUpdated : {"absent", "invalid", "date"},
     age : AgeSamples, status : StatusValues \cup {<<>>},
     owner : BOOLEAN, docType : BOOLEAN]

\* a file read_text cannot read (deleted in the index, no permission, not UTF-8)
Unreadable ==
    [readable |-> FALSE, lastUpdated |-> "absent", age |-> 0, status |-> <<>>,
     owner |-> FALSE, docType |-> FALSE]

\* the content of a file: the age is kept only with a date
FileContents ==
    {c \in Contents : c.lastUpdated # "date" => c.age = 0} \cup {Unreadable}

NoPath == <<>>

(***************************************************************************)
(* Metadata validator: should_check_file                                   *)
(***************************************************************************)
should_check_file(filepath) ==
    /\ PathSuffix(filepath) = MD_SUFFIX
    /\ \E i \in DOMAIN PathParts(filepath) : PathParts(filepath)[i] \in DOCS_DIRS
    /\ ~ \E pattern \in EXCLUDE_PATTERNS : Contains(filepath, pattern)

(***************************************************************************)
(* Metadata validator: validate_file                                       *)
(***************************************************************************)
\* re.search(REQUIRED_FIELDS[field], content)
FieldFound(field, content) ==
    CASE field = "Last Updated"  -> content.lastUpdated # "absent"
      [] field = "Status"        -> content.status # <<>>
      [] field = "Owner"         -> content.owner
      [] field = "Document Type" -> content.docType

missing_fields(content) ==
    SelectSeq(REQUIRED_FIELDS, LAMBDA field : ~FieldFound(field, content))

\* filepath.relative_to(Path.cwd()) raises ValueError unless filepath lies
\* under the current directory
RelativeToRaises(filepath) == ~StartsWith(filepath, CWD \o <<"/">>)

\* found_fields['Status']: the whole match, label included
status_value(content) == STATUS_LABEL \o content.status

StatusIsStandard(content) ==
    \E i \in DOMAIN valid_statuses : Contains(status_value(content), valid_statuses[i])

\* datetime.strptime succeeds and days_old > 180
IsStale(content) ==
    /\ content.lastUpdated = "date"
    /\ content.age > STALE_DAYS

\* the staleness block: the message is built inside try ... except ValueError,
\* so a ValueError of relative_to is swallowed with the warning
StaleWarnings(filepath, content) ==
    IF IsStale(content) /\ ~RelativeToRaises(filepath)
    THEN << [file |-> filepath, kind |-> "stale"] >>
    ELSE << >>

\* validate_file(filepath) on a file holding content, from the accumulators
\* errs and warns: the accumulators afterwards and the exception that
\* escaped ("" when the call returned)
validate_file(filepath, content, errs, warns) ==
    IF ~content.readable THEN
        [errors |-> Append(errs, [file |-> filepath, kind |-> "unreadable",
                                  fields |-> <<>>]),
         warnings |-> warns, raised |-> ""]
    ELSE IF missing_fields(content) # <<>> THEN
        IF RelativeToRaises(filepath)
        THEN [errors |-> errs, warnings |-> warns, raised |-> "ValueError"]
        ELSE [errors |-> Append(errs, [file |-> filepath, kind |-> "missing",
                                       fields |-> missing_fields(content)]),
              warnings |-> warns, raised |-> ""]
    ELSE IF ~StatusIsStandard(content) THEN
        IF RelativeToRaises(filepath)
        THEN [errors |-> errs,
              warnings |-> warns \o StaleWarnings(filepath, content),
              raised |-> "ValueError"]
        ELSE [errors |-> errs,
              warnings |-> (warns \o StaleWarnings(filepath, content))
                              \o << [file |-> filepath, kind |-> "status"] >>,
              raised |-> ""]
    ELSE [errors |-> errs,
          warnings |-> warns \o StaleWarnings(filepath, content),
          raised |-> ""]

(***************************************************************************)
(* Metadata validator: run                                                 *)
(***************************************************************************)
\* what get_staged_files can do: return the files git printed, return [] on
\* CalledProcessError (git exits non-zero), or let the OSError of a git that
\* cannot be launched through (only CalledProcessError is caught)
GitOutcomes == {"ok", "CalledProcessError", "FileNotFoundError"}

\* run() failing on warnings where it should fail on errors
ReportCodeOnWarnings(errs, warns) == IF warns # <<>> THEN 1 ELSE 0

\* the value run() returns after the loop
ReportCode(errs, warns) == IF errs # <<>> THEN 1 ELSE 0

MetaInit ==
    /\ m_pc = "start"
    /\ gitOutcome = "none"
    /\ staged = <<>>
    /\ doc_files = <<>>
    /\ idx = 1
    /\ curPath = NoPath
    /\ curContent = Unreadable
    /\ errors = <<>>
    /\ warnings = <<>>
    /\ exception = ""
    /\ exitCode = -1

\* run(), lines 135-145: the query, the two early returns and the filter
RunGetStaged ==
    /\ m_pc = "start"
    /\ \E outcome \in GitOutcomes, files \in DistinctSeqs(StagedPaths, MaxStaged) :
        /\ outcome # "ok" => files = <<>>
        /\ gitOutcome' = outcome
        /\ staged' = files
        /\ doc_files' = SelectSeq(files, should_check_file)
        /\ IF outcome = "FileNotFoundError"
           THEN /\ m_pc' = "raised"
                /\ exception' = "FileNotFoundError"
                /\ exitCode' = exitCode
           ELSE IF files = <<>> \/ SelectSeq(files, should_check_file) = <<>>
           THEN /\ m_pc' = "returned"
                /\ exitCode' = 0
                /\ exception' = exception
           ELSE /\ m_pc' = "validating"
                /\ UNCHANGED <<exception, exitCode>>
    /\ UNCHANGED <<idx, curPath, curContent, errors, warnings>>
    /\ UNCHANGED <<linkVars, anchorVars>>

\* run(), lines 150-151: one turn of the loop, validate_file(doc_file)
RunValidateFile ==
    /\ m_pc = "validating"
    /\ idx <= Len(doc_files)
    /\ \E content \in FileContents :
        LET r == validate_file(doc_files[idx], content, errors, warnings)
        IN  /\ curPath' = doc_files[idx]
            /\ curContent' = content
            /\ errors' = r.errors
            /\ warnings' = r.warnings
            /\ exception' = r.raised
            /\ m_pc' = IF r.raised # "" THEN "raised" ELSE "validating"
    /\ idx' = idx + 1
    /\ UNCHANGED <<gitOutcome, staged, doc_files, exitCode>>
    /\ UNCHANGED <<linkVars, anchorVars>>

\* run(), lines 153-172: the report and the return value
RunReport ==
    /\ m_pc = "validating"
    /\ idx > Len(doc_files)
    /\ exitCode' = ReportCode(errors, warnings)
    /\ m_pc' = "returned"
    /\ UNCHANGED <<gitOutcome, staged, doc_files, idx, curPath, curContent,
                   errors, warnings, exception>>
    /\ UNCHANGED <<linkVars, anchorVars>>

MetaNext == RunGetStaged \/ RunValidateFile \/ RunReport

(***************************************************************************)
(* Properties of the metadata validator                                    *)
(***************************************************************************)
\* the errors and warnings recorded for a file
ErrorsFor(filepath) == {i \in DOMAIN errors : errors[i].file = filepath}

WarningsFor(filepath, kind) ==
    {i \in DOMAIN warnings : warnings[i].file = filepath /\ warnings[i].kind = kind}

\* validate_file has been called, on a file it could read
Validated == curPath # NoPath /\ curContent.readable

\* C1: when run() returns, the value is 0 or 1, and it is 1 exactly when at
\* least one error was recorded; the warnings have no part in it.
C1_ExitCodeIffErrors ==
    m_pc = "returned" =>
        /\ exitCode \in {0, 1}
        /\ exitCode = 1 <=> errors # <<>>

\* a run that recorded an error (a staged file that cannot be read) and
\* returned 1
C1_Witness ==
    /\ m_pc = "returned"
    /\ exitCode = 1
    /\ errors # <<>>

\* C2: a validated in-scope file that lacks required markers has exactly one
\* error, which lists exactly its missing fields, and the run does not end
\* with 0 or with an exception.
C2_MissingFieldsReported ==
    (Validated /\ missing_fields(curContent) # <<>>) =>
        /\ Cardinality(ErrorsFor(curPath)) = 1
        /\ \A i \in ErrorsFor(curPath) :
               /\ errors[i].kind = "missing"
               /\ errors[i].fields = missing_fields(curContent)
        /\ m_pc # "raised"
        /\ m_pc = "returned" => exitCode = 1

\* C3: no exception leaves run(); it returns 0 or 1; a failed staged-files
\* query gives the empty list, so the run returns 0; an unreadable file is
\* recorded and the loop goes on.
C3_NoExceptionEscapes ==
    /\ m_pc # "raised"
    /\ exception = ""
    /\ m_pc = "returned" => exitCode \in {0, 1}
    /\ gitOutcome \in {"CalledProcessError", "FileNotFoundError"} =>
           m_pc = "returned" /\ staged = <<>> /\ exitCode = 0
    /\ (curPath # NoPath /\ ~curContent.readable) =>
           Cardinality(ErrorsFor(curPath)) = 1

\* the directories the scope filter is meant to look in
C4_DocDirNames ==
    { <<"s","p","e","c","s">>, <<"d","o","c","s">>, <<"p","l","a","n","n","i","n","g">> }

\* the directories the scope filter is meant to leave out
C4_ExcludedDirNames ==
    { <<".","g","i","t">>,
      <<"n","o","d","e","_","m","o","d","u","l","e","s">>,
      <<"_","_","p","y","c","a","c","h","e","_","_">> }

\* a markdown file under specs, docs, planning or .github/docs that is not
\* README.md and not inside a version-control or dependency directory
C4_InScope(filepath) ==
    LET parts == PathParts(filepath)
    IN  /\ PathSuffix(filepath) = <<".","m","d">>
        /\ \E i \in 1..(Len(parts) - 1) :
               \/ parts[i] \in C4_DocDirNames
               \/ /\ i + 1 < Len(parts)
                  /\ parts[i] = <<".","g","i","t","h","u","b">>
                  /\ parts[i + 1] = <<"d","o","c","s">>
        /\ PathName(filepath) # <<"R","E","A","D","M","E",".","m","d">>
        /\ \A i \in 1..(Len(parts) - 1) : parts[i] \notin C4_ExcludedDirNames

\* C4: every staged file that is in scope is among the files run() validates.
C4_ScopeFilter ==
    (m_pc \in {"validating", "returned", "raised"} /\ gitOutcome = "ok") =>
        \A i \in DOMAIN staged :
            C4_InScope(staged[i]) => staged[i] \in Range(doc_files)

\* the value after **Status**: contains one of the six words
C5_HasKnownWord(value) ==
    \E i \in DOMAIN valid_statuses : Contains(value, valid_statuses[i])

\* C5: a validated file with a Status marker has one status warning when its
\* value contains none of the six words and none when it contains one,
\* whatever other fields are missing.
C5_StatusWarning ==
    (Validated /\ curContent.status # <<>>) =>
        Cardinality(WarningsFor(curPath, "status")) =
            IF C5_HasKnownWord(curContent.status) THEN 0 ELSE 1

\* C6: a validated file with the four markers and a valid date has one
\* staleness warning when it is more than 180 days old and none otherwise,
\* and no error.
C6_StaleWarning ==
    (Validated /\ missing_fields(curContent) = <<>> /\ curContent.lastUpdated = "date") =>
        /\ Cardinality(WarningsFor(curPath, "stale")) =
               IF curContent.age > 180 THEN 1 ELSE 0
        /\ ErrorsFor(curPath) = {}

(***************************************************************************)
(* Link validator: anchor derivation                                       *)
(***************************************************************************)
UpperLetters ==
    <<"A","B","C","D","E","F","G","H","I","J","K","L","M",
      "N","O","P","Q","R","S","T","U","V","W","X","Y","Z">>

LowerLetters ==
    <<"a","b","c","d","e","f","g","h","i","j","k","l","m",
      "n","o","p","q","r","s","t","u","v","w","x","y","z">>

Digits == {"0","1","2","3","4","5","6","7","8","9"}

\* str.lower() on one character
LowerChar(c) ==
    IF \E i \in DOMAIN UpperLetters : UpperLetters[i] = c
    THEN LowerLetters[CHOOSE i \in DOMAIN UpperLetters : UpperLetters[i] = c]
    ELSE c

\* the characters \w matches (of the ASCII characters the model uses)
IsWordChar(c) ==
    c \in Range(UpperLetters) \cup Range(LowerLetters) \cup Digits \cup {"_"}

\* text.lower()
RECURSIVE Lower(_)
Lower(s) ==
    IF s = <<>> THEN <<>> ELSE <<LowerChar(Head(s))>> \o Lower(Tail(s))

\* s.replace(c, by), c one character and by a string
RECURSIVE Replace(_, _, _)
Replace(s, c, by) ==
    IF s = <<>> THEN <<>>
    ELSE (IF Head(s) = c THEN by ELSE <<Head(s)>>) \o Replace(Tail(s), c, by)

\* re.sub(r'[^\w\-]', '', s)
StripNonWord(s) == SelectSeq(s, LAMBDA c : IsWordChar(c) \/ c = "-")

\* the scan's derivation without the lower-casing
ScanAnchorNoLower(heading) ==
    StripNonWord(Replace(Replace(heading, " ", <<"-">>), "&", <<"a","n","d">>))

\* extract_links, lines 48-50: the anchor of a heading found by the scan
ScanAnchor(heading) ==
    StripNonWord(Replace(Replace(Lower(heading), " ", <<"-">>), "&", <<"a","n","d">>))

\* validate_links, lines 107-109: the anchor of a heading of a link target
\* read on demand
DemandAnchor(heading) ==
    StripNonWord(Replace(Replace(Lower(heading), " ", <<"-">>), "&", <<"a","n","d">>))

(***************************************************************************)
(* Link validator: the documentation tree                                  *)
(***************************************************************************)
\* Paths below project_root are sequences of path segments.
DOCS == <<"d","o","c","s">>

FileA      == << DOCS, <<"a",".","m","d">> >>                   \* docs/a.md
FileB      == << DOCS, <<"b",".","m","d">> >>                   \* docs/b.md
FileReadme == << <<"R","E","A","D","M","E",".","m","d">> >>     \* README.md
FileImg    == << DOCS, <<"i","m","g",".","p","n","g">> >>       \* docs/img.png

\* what doc_dir.rglob("*.md") yields over self.docs_dirs: specs/ and
\* planning/ do not exist in this tree
ScanFiles == {FileA, FileB}

\* every path the model gives a content
DiskFiles == {FileA, FileB, FileReadme, FileImg}

\* the directories of the tree
DiskDirs == { <<>>, <<DOCS>> }

\* heading texts (the group of ^#+\s+(.+)$) a file can hold
HeadingSets ==
    { {},
      { <<"I","n","s","t","a","l","l">> } }                     \* ## Install

\* link targets (the group of \[.*?\]\((.*?)\)) docs/a.md can hold
UrlSamples ==
    { <<"h","t","t","p",":","/","/","x">>,                                  \* http://x
      <<"#","i","n","s","t","a","l","l">>,                                  \* #install
      <<"b",".","m","d">>,                                                  \* b.md
      <<".","/","b",".","m","d","#","i","n","s","t","a","l","l">>,          \* ./b.md#install
      <<"b",".","m","d","#","f","a","q">>,                                  \* b.md#faq
      <<"g","o","n","e",".","m","d","#","i","n","s","t","a","l","l">>,      \* gone.md#install
      <<".",".","/","R","E","A","D","M","E",".","m","d","#","i","n","s","t","a","l","l">>,
                                                                            \* ../README.md#install
      <<"i","m","g",".","p","n","g","#","i","n","s","t","a","l","l">> }     \* img.png#install

\* the links docs/b.md can hold
BackLinkSamples ==
    { <<>>,
      << <<"a",".","m","d","#","i","n","s","t","a","l","l">> >> }           \* a.md#install

\* a file read_text cannot read
UnreadableFile == [exists |-> TRUE, readable |-> FALSE, headings |-> {}, links |-> <<>>]

FilesWith(headingSets, linkLists) ==
    [exists : {TRUE}, readable : {TRUE}, headings : headingSets, links : linkLists]

(***************************************************************************)
(* Link validator: paths                                                   *)
(***************************************************************************)
HTTP == <<"h","t","t","p">>

\* url.split('#', 1)[0], or the url when it holds no '#'
UrlFilePath(url) ==
    IF IndexOf(url, "#") = 0 THEN url ELSE SubSeq(url, 1, IndexOf(url, "#") - 1)

\* url.split('#', 1)[1]; <<>> stands for None and for the empty anchor, which
\* `if anchor:` treats alike
UrlAnchor(url) ==
    IF IndexOf(url, "#") = 0 THEN <<>> ELSE SubSeq(url, IndexOf(url, "#") + 1, Len(url))

\* Path.resolve(): "." and empty segments dropped, ".." removes the segment
\* before it
RECURSIVE Normalize(_, _)
Normalize(done, rest) ==
    IF rest = <<>> THEN done
    ELSE IF Head(rest) = <<>> \/ Head(rest) = <<".">> THEN Normalize(done, Tail(rest))
    ELSE IF Head(rest) = <<".", ".">> /\ done # <<>> /\ done[Len(done)] # <<".", ".">>
         THEN Normalize(SubSeq(done, 1, Len(done) - 1), Tail(rest))
    ELSE Normalize(Append(done, Head(rest)), Tail(rest))

\* (source_file.parent / file_path).resolve(), as a path below project_root;
\* project_root is taken to be a resolved path, so that this is also the path
\* rglob yields for the file
ResolveTarget(source_file, file_path) ==
    Normalize(<<>>, SubSeq(source_file, 1, Len(source_file) - 1) \o Split(file_path, "/"))

\* target_file.exists() on the tree d
TargetExists(d, target_file) ==
    \/ target_file \in DiskDirs
    \/ target_file \in DiskFiles /\ d[target_file].exists

\* target_file.suffix == '.md'
IsMarkdown(target_file) ==
    /\ target_file # <<>>
    /\ NameSuffix(target_file[Len(target_file)]) = MD_SUFFIX

\* file in self.anchors
InAnchors(anch, file) == file \in DOMAIN anch /\ anch[file].known

\* self.anchors.get(file, set())
AnchorsGet(anch, file) == IF InAnchors(anch, file) THEN anch[file].names ELSE {}

(***************************************************************************)
(* Link validator: extract_links                                           *)
(***************************************************************************)
\* extract_links, line 53: the anchors of a scanned file are stored only
\* when the file has a heading
ScanStores(found) == found # {}

\* extract_links, lines 37-59, for one md_file of the tree d: the accumulators
\* afterwards
extract_file(d, md_file, st) ==
    IF ~d[md_file].readable THEN
        [st EXCEPT !.warnings =
            Append(@, [kind |-> "unreadable", source |-> md_file,
                       anchor |-> <<>>, target |-> md_file])]
    ELSE
        LET found == {ScanAnchor(h) : h \in d[md_file].headings}
        IN  [st EXCEPT
                !.parseCount[md_file] = @ + 1,
                !.anchors[md_file] =
                    IF ScanStores(found) THEN [known |-> TRUE, names |-> found] ELSE @,
                !.links = @ \o [i \in DOMAIN d[md_file].links |->
                                   [source |-> md_file, url |-> d[md_file].links[i]]]]

(***************************************************************************)
(* Link validator: validate_links                                          *)
(***************************************************************************)
\* lines 99-113: the target's anchors are looked up, and read on demand when
\* the target is a markdown file that is not in self.anchors
EnsureAnchors(d, target_file, st) ==
    IF InAnchors(st.anchors, target_file) \/ ~IsMarkdown(target_file) THEN st
    ELSE IF ~d[target_file].readable THEN
        [st EXCEPT !.warnings =
            Append(@, [kind |-> "unreadable", source |-> target_file,
                       anchor |-> <<>>, target |-> target_file])]
    ELSE
        [st EXCEPT
            !.parseCount[target_file] = @ + 1,
            !.anchors[target_file] =
                [known |-> TRUE,
                 names |-> {DemandAnchor(h) : h \in d[target_file].headings}]]

\* a missing anchor of a link target recorded as an error
CheckTargetAnchorAsError(source_file, url, target_file, st) ==
    IF UrlAnchor(url) \notin AnchorsGet(st.anchors, target_file)
    THEN [st EXCEPT !.errors =
            Append(@, [kind |-> "anchor_not_found", source |-> source_file,
                       path |-> UrlFilePath(url)])]
    ELSE st

\* lines 115-119: the membership check after the lookup
CheckTargetAnchor(source_file, url, target_file, st) ==
    IF UrlAnchor(url) \notin AnchorsGet(st.anchors, target_file)
    THEN [st EXCEPT !.warnings =
            Append(@, [kind |-> "anchor_not_found", source |-> source_file,
                       anchor |-> UrlAnchor(url), target |-> target_file])]
    ELSE st

\* lines 86-119: a link to another file
validate_cross_file(d, source_file, url, st) ==
    LET file_path   == UrlFilePath(url)
        target_file == ResolveTarget(source_file, file_path)
    IN  IF file_path = <<>> THEN st
        ELSE IF ~TargetExists(d, target_file) THEN
            [st EXCEPT !.errors =
                Append(@, [kind |-> "file_not_found", source |-> source_file,
                           path |-> file_path])]
        ELSE IF UrlAnchor(url) = <<>> THEN st
        ELSE CheckTargetAnchor(source_file, url, target_file,
                               EnsureAnchors(d, target_file, st))

\* lines 63-119: one turn of the loop over self.links
validate_link(d, source_file, url, st) ==
    IF StartsWith(url, HTTP) THEN st
    ELSE IF StartsWith(url, <<"#">>) THEN
        IF SubSeq(url, 2, Len(url)) \notin AnchorsGet(st.anchors, source_file)
        THEN [st EXCEPT !.warnings =
                Append(@, [kind |-> "anchor_same_file", source |-> source_file,
                           anchor |-> SubSeq(url, 2, Len(url)),
                           target |-> source_file])]
        ELSE st
    ELSE validate_cross_file(d, source_file, url, st)

\* report() failing on warnings as well as on errors
LinkReportCodeOnWarnings(errs, warns) == IF errs # <<>> \/ warns # <<>> THEN 1 ELSE 0

\* report(), line 150
LinkReportCode(errs, warns) == IF errs # <<>> THEN 1 ELSE 0

\* the accumulators of a LinkValidator
LinkState ==
    [errors |-> linkErrors, warnings |-> linkWarnings, anchors |-> anchors,
     links |-> links, parseCount |-> parseCount]

LinkInit ==
    /\ l_pc = "extract"
    /\ \E ca \in {UnreadableFile}
                 \cup FilesWith(HeadingSets,
                                UNION {[1..k -> UrlSamples] : k \in 0..MaxLinks}),
          cb \in {UnreadableFile} \cup FilesWith(HeadingSets, BackLinkSamples),
          cr \in {UnreadableFile} \cup FilesWith(HeadingSets, {<<>>}) :
        disk = [f \in DiskFiles |->
                   CASE f = FileA      -> ca
                     [] f = FileB      -> cb
                     [] f = FileReadme -> cr
                     [] f = FileImg    -> UnreadableFile]
    /\ scanned = {}
    /\ anchors = [f \in DiskFiles |-> [known |-> FALSE, names |-> {}]]
    /\ links = <<>>
    /\ li = 1
    /\ linkErrors = <<>>
    /\ linkWarnings = <<>>
    /\ parseCount = [f \in DiskFiles |-> 0]
    /\ errBefore = 0
    /\ warnBefore = 0
    /\ linkExit = -1

\* extract_links: one md_file of the rglob, in the order the filesystem
\* yields them
ExtractFile ==
    /\ l_pc = "extract"
    /\ \E md_file \in ScanFiles \ scanned :
        LET st == extract_file(disk, md_file, LinkState)
        IN  /\ scanned' = scanned \cup {md_file}
            /\ linkWarnings' = st.warnings
            /\ anchors' = st.anchors
            /\ links' = st.links
            /\ parseCount' = st.parseCount
            /\ l_pc' = IF scanned \cup {md_file} = ScanFiles THEN "validate" ELSE "extract"
    /\ UNCHANGED <<disk, li, linkErrors, errBefore, warnBefore, linkExit>>
    /\ UNCHANGED <<metaVars, anchorVars>>

\* validate_links: one turn of the loop
ValidateLink ==
    /\ l_pc = "validate"
    /\ li <= Len(links)
    /\ LET st == validate_link(disk, links[li].source, links[li].url, LinkState)
       IN  /\ linkErrors' = st.errors
           /\ linkWarnings' = st.warnings
           /\ anchors' = st.anchors
           /\ parseCount' = st.parseCount
    /\ errBefore' = Len(linkErrors)
    /\ warnBefore' = Len(linkWarnings)
    /\ li' = li + 1
    /\ UNCHANGED <<l_pc, disk, scanned, links, linkExit>>
    /\ UNCHANGED <<metaVars, anchorVars>>

\* validate_links returns and report() gives the exit code
Report ==
    /\ l_pc = "validate"
    /\ li > Len(links)
    /\ linkExit' = LinkReportCode(linkErrors, linkWarnings)
    /\ l_pc' = "done"
    /\ UNCHANGED <<disk, scanned, anchors, links, li, linkErrors, linkWarnings,
                   parseCount, errBefore, warnBefore>>
    /\ UNCHANGED <<metaVars, anchorVars>>

LinkNext == ExtractFile \/ ValidateLink \/ Report

(***************************************************************************)
(* Properties of the link validator                                        *)
(***************************************************************************)
\* a link validate_links resolves against the tree: neither external nor a
\* same-file anchor, and with a path
IsCrossFile(url) ==
    /\ ~StartsWith(url, <<"h","t","t","p">>)
    /\ ~StartsWith(url, <<"#">>)
    /\ UrlFilePath(url) # <<>>

\* the links of the scanned files whose resolved target is not on disk, each
\* as the file and the position of the link in it
BrokenLinks ==
    UNION { { <<f, i>> : i \in {j \in DOMAIN disk[f].links :
                  /\ IsCrossFile(disk[f].links[j])
                  /\ ~TargetExists(disk, ResolveTarget(f, UrlFilePath(disk[f].links[j])))} }
            : f \in {g \in ScanFiles : disk[g].readable} }

\* C7: every recorded error is a link target that is not on disk; when the
\* run ends there is one such error per broken link, and the exit code is 1
\* exactly when there is a broken link: anchor findings and unreadable files
\* are warnings and leave the exit code alone.
C7_ExitIffBrokenLink ==
    /\ \A i \in DOMAIN linkErrors : linkErrors[i].kind = "file_not_found"
    /\ \A i \in DOMAIN linkWarnings :
           linkWarnings[i].kind \in {"unreadable", "anchor_same_file", "anchor_not_found"}
    /\ l_pc = "done" =>
           /\ linkExit \in {0, 1}
           /\ linkExit = 1 <=> BrokenLinks # {}
           /\ Len(linkErrors) = Cardinality(BrokenLinks)

\* a finished run that failed on a broken link and also recorded warnings
C7_Witness ==
    /\ l_pc = "done"
    /\ linkExit = 1
    /\ BrokenLinks # {}
    /\ linkWarnings # <<>>

\* a link has been validated: the link, and what its turn of the loop added
LinkValidated == l_pc \in {"validate", "done"} /\ li > 1

LastLink == links[li - 1]

LastTarget == ResolveTarget(LastLink.source, UrlFilePath(LastLink.url))

NewErrors == SubSeq(linkErrors, errBefore + 1, Len(linkErrors))

NewWarnings == SubSeq(linkWarnings, warnBefore + 1, Len(linkWarnings))

\* the warnings of the last link that name its anchor
NewAnchorWarnings ==
    {i \in DOMAIN NewWarnings :
        /\ NewWarnings[i].kind = "anchor_not_found"
        /\ NewWarnings[i].anchor = UrlAnchor(LastLink.url)
        /\ NewWarnings[i].source = LastLink.source}

\* the anchors of the headings a file holds
HeadingAnchors(file) == {ScanAnchor(h) : h \in disk[file].headings}

\* C8: a cross-file link whose target is not on disk adds one error and no
\* warning; one whose target exists and that has no anchor adds nothing; one
\* to an existing markdown file with an anchor that no heading of the target
\* gives adds no error and exactly one warning naming the anchor (and, when
\* the target can be read, no other warning).
C8_CrossFileLink ==
    (LinkValidated /\ IsCrossFile(LastLink.url)) =>
        /\ ~TargetExists(disk, LastTarget) =>
               Len(NewErrors) = 1 /\ NewWarnings = <<>>
        /\ (TargetExists(disk, LastTarget) /\ UrlAnchor(LastLink.url) = <<>>) =>
               NewErrors = <<>> /\ NewWarnings = <<>>
        /\ ( /\ TargetExists(disk, LastTarget)
             /\ LastTarget \in DiskFiles
             /\ IsMarkdown(LastTarget)
             /\ UrlAnchor(LastLink.url) # <<>>
             /\ UrlAnchor(LastLink.url) \notin HeadingAnchors(LastTarget) ) =>
               /\ NewErrors = <<>>
               /\ Cardinality(NewAnchorWarnings) = 1
               /\ disk[LastTarget].readable => Len(NewWarnings) = 1

\* ./b.md#install validated when docs/b.md has no Install heading: one
\* warning, no error
C8_Witness ==
    /\ LinkValidated
    /\ LastLink.url = <<".","/","b",".","m","d","#","i","n","s","t","a","l","l">>
    /\ disk[FileB].readable
    /\ disk[FileB].headings = {}
    /\ NewErrors = <<>>
    /\ Len(NewWarnings) = 1

\* C9: within one run the anchors of a file are computed at most once.
C9_AnchorsComputedOnce ==
    l_pc \in {"extract", "validate", "done"} =>
        \A f \in DiskFiles : parseCount[f] <= 1

(***************************************************************************)
(* Anchor derivation on its own                                            *)
(***************************************************************************)
\* characters of a heading text: an upper-case and lower-case letters, a
\* space, an ampersand, a hyphen, an underscore, punctuation and a digit
HeadingChars == {"A", "a", "n", "d", " ", "&", "-", "_", "!", "1"}

AnchorInit ==
    /\ a_pc = "input"
    /\ text \in UNION {[1..k -> HeadingChars] : k \in 0..MaxLen}
    /\ scanAnchor = <<>>
    /\ demandAnchor = <<>>
    /\ rederived = <<>>

\* a heading is turned into its anchor, by the scan and by the on-demand read
DeriveAnchors ==
    /\ a_pc = "input"
    /\ scanAnchor' = ScanAnchor(text)
    /\ demandAnchor' = DemandAnchor(text)
    /\ a_pc' = "derived"
    /\ UNCHANGED <<text, rederived, metaVars, linkVars>>

\* the derived anchor is itself the text of a heading
RederiveAnchor ==
    /\ a_pc = "derived"
    /\ rederived' = ScanAnchor(scanAnchor)
    /\ a_pc' = "rederived"
    /\ UNCHANGED <<text, scanAnchor, demandAnchor, metaVars, linkVars>>

AnchorNext == DeriveAnchors \/ RederiveAnchor

(***************************************************************************)
(* Properties of the anchor derivation                                     *)
(***************************************************************************)
\* C10: the scan and the on-demand read derive the same anchor from a
\* heading; the anchor holds only word characters and hyphens; deriving
\* again from the anchor gives the anchor back.
C10_AnchorDerivation ==
    /\ a_pc \in {"derived", "rederived"} =>
           /\ scanAnchor = demandAnchor
           /\ \A i \in DOMAIN scanAnchor :
                  \/ scanAnchor[i] \in Range(LowerLetters) \cup Range(UpperLetters)
                  \/ scanAnchor[i] \in Digits \cup {"_", "-"}
    /\ a_pc = "rederived" => rederived = scanAnchor

\* the heading "A &" has given the anchor a-and, and a-and itself
C10_Witness ==
    /\ a_pc = "rederived"
    /\ text = <<"A", " ", "&">>
    /\ scanAnchor = <<"a", "-", "a", "n", "d">>
    /\ rederived = scanAnchor

(***************************************************************************)
(* Specifications: each program runs on its own                            *)
(***************************************************************************)
\* the metadata validator before run() is entered
MetaIdle ==
    /\ m_pc = "idle"
    /\ gitOutcome = "none"
    /\ staged = <<>>
    /\ doc_files = <<>>
    /\ idx = 1
    /\ curPath = NoPath
    /\ curContent = Unreadable
    /\ errors = <<>>
    /\ warnings = <<>>
    /\ exception = ""
    /\ exitCode = -1

\* the link validator before main() is entered
LinkIdle ==
    /\ l_pc = "idle"
    /\ disk = <<>>
    /\ scanned = {}
    /\ anchors = <<>>
    /\ links = <<>>
    /\ li = 1
    /\ linkErrors = <<>>
    /\ linkWarnings = <<>>
    /\ parseCount = <<>>
    /\ errBefore = 0
    /\ warnBefore = 0
    /\ linkExit = -1

\* no heading under derivation
AnchorIdle ==
    /\ a_pc = "idle"
    /\ text = <<>>
    /\ scanAnchor = <<>>
    /\ demandAnchor = <<>>
    /\ rederived = <<>>

MetaSpecInit == MetaInit /\ LinkIdle /\ AnchorIdle

LinkSpecInit == LinkInit /\ MetaIdle /\ AnchorIdle

AnchorSpecInit == AnchorInit /\ MetaIdle /\ LinkIdle

\* the metadata hook
MetaSpec == MetaSpecInit /\ [][MetaNext]_vars

\* the link script
LinkSpec == LinkSpecInit /\ [][LinkNext]_vars

\* the anchor derivation
AnchorSpec == AnchorSpecInit /\ [][AnchorNext]_vars

====
